---- MODULE Spec2Model ----
(***************************************************************************)
(* Host lifecycle of the single minikube VM (package cluster):             *)
(* StartHost / createHost, StopHost, DeleteHost, GetHostStatus and         *)
(* EnsureMinikubeRunningOrExit, over the libmachine record store and the   *)
(* hypervisor's power state.  Every operation is synchronous and runs to   *)
(* completion; the calls it makes on libmachine are logged in order,       *)
(* together with their results, so that ordering and error handling can    *)
(* be stated on the log.  The bootstrap of the cluster on the host          *)
(* (SetupCerts, UpdateCluster, StartCluster), the service resolver and    *)
(* the yes/no prompt have specifications of their own further down;        *)
(* remote is what has been transferred to the VM.                          *)
(***************************************************************************)
EXTENDS Integers, Sequences, FiniteSets, TLC

VARIABLES store, vm, last, prev, remote

vars == <<store, vm, last, prev, remote>>

----------------------------------------------------------------------------
(* Constants of the program and the input ranges of the model.             *)

\* The backends createHost's switch knows.
SupportedDrivers == {"virtualbox", "vmwarefusion", "kvm", "xhyve", "hyperv"}

\* Backend tags a MachineConfig may carry: the supported ones and two that
\* are not.
VMDrivers == SupportedDrivers \cup {"docker", ""}

\* Largest exit status a caller of EnsureMinikubeRunningOrExit passes.
MaxExitStatus == 2

ExitStatuses == 0..MaxExitStatus

\* The record store holds no record under constants.MachineName; the VM is
\* "None" (there is none), "Stopped" or "Running" in the hypervisor.
NoRecord == [driver |-> "none", saved |-> "none"]

\* libmachine state.Running.String()
Running == "Running"

\* The sets of calls that fail during one operation: any of them where the
\* operation goes on after a failure, at most one where it returns at the
\* first.
FaultSets(calls, goesOn) ==
  IF goesOn THEN SUBSET calls ELSE {{}} \cup {{c} : c \in calls}

\* What the environment does during one operation: the calls that fail, the
\* state a failing GetState hands back with its error, and whether a failing
\* api.Create had already written the record.
EnvsOf(calls, goesOn) ==
  UNION { { [faults |-> f, badState |-> b, partial |-> p] :
              b \in IF "Driver.GetState" \in f THEN {"", "Error"} ELSE {""},
              p \in IF "api.Create" \in f THEN BOOLEAN ELSE {FALSE} } :
          f \in FaultSets(calls, goesOn) }

Fails(env, call) == call \in env.faults

----------------------------------------------------------------------------
(* Results and the call log.                                               *)

Call(name, err, val) == [name |-> name, err |-> err, val |-> val]

NoRet ==
  [kind |-> "none", msg |-> "", code |-> 0, host |-> FALSE, status |-> "",
   errs |-> <<>>]

\* return nil
Ok == [NoRet EXCEPT !.kind = "ok"]
\* return h, nil
OkHost == [NoRet EXCEPT !.kind = "ok", !.host = TRUE]
\* return s, nil
OkStatus(s) == [NoRet EXCEPT !.kind = "ok", !.status = s]
\* return errors.Wrap(err, msg)
Error(msg) == [NoRet EXCEPT !.kind = "error", !.msg = msg]
\* return &util.RetriableError{Err: errors.Wrap(err, msg)}
Retriable(msg) == [NoRet EXCEPT !.kind = "retriable", !.msg = msg]
\* os.Exit(code) / glog.Exitf
Exit(code) == [NoRet EXCEPT !.kind = "exit", !.code = code]

\* The outcome of one operation: the store and the VM it leaves, what it
\* returned and the calls it made.
R(st, vmState, ret, calls) ==
  [store |-> st, vm |-> vmState, ret |-> ret, calls |-> calls]

----------------------------------------------------------------------------
(* libmachine, as the lifecycle code uses it.                              *)

\* api.Exists(constants.MachineName)
Exists(st) == st # NoRecord

\* h.Driver.GetState(): the hypervisor's state of the VM, state.None (whose
\* String() is "") when there is no VM; a failing query returns an error
\* together with state.None or state.Error.
GetState(vmState, env) ==
  IF Fails(env, "Driver.GetState")
  THEN [s |-> env.badState, err |-> TRUE]
  ELSE [s |-> IF vmState = "None" THEN "" ELSE vmState, err |-> FALSE]

\* What api.Save(h) writes: the host's driver and the state it is in.
Record(driver, vmState) == [driver |-> driver, saved |-> vmState]

\* h.Driver.Start() succeeds on a VM that exists.
StartFails(vmState, env) == Fails(env, "Driver.Start") \/ vmState = "None"

\* host.Stop() succeeds on a Running VM only (libmachine refuses a host that
\* is already in the desired state).
StopFails(vmState, env) == Fails(env, "host.Stop") \/ vmState # Running

\* api.Load(constants.MachineName)
LoadFails(st, env) == Fails(env, "api.Load") \/ ~Exists(st)

----------------------------------------------------------------------------
(* util.MultiError                                                         *)

\* m.Collect(err): a nil error is dropped.
Collect(m, err) == IF err = "" THEN m ELSE Append(m, err)

\* m.ToError(): nil when nothing was collected.
ToError(m) == IF Len(m) = 0 THEN Ok ELSE [NoRet EXCEPT !.kind = "error",
                                           !.msg = "MultiError", !.errs = m]

----------------------------------------------------------------------------
(* createHost                                                              *)

DriverSupported_Any(tag) == TRUE

\* The switch on config.VMDriver: every case but default builds a driver.
DriverSupported(tag) ==
  tag \in {"virtualbox", "vmwarefusion", "kvm", "xhyve", "hyperv"}

createHost(st, vmState, config, env) ==
  LET cache == "CacheMinikubeISOFromURL" IN
  IF Fails(env, cache)
  THEN R(st, vmState,
         Error("Error attempting to cache minikube ISO from URL"),
         <<Call(cache, TRUE, "")>>)
  ELSE LET c1 == <<Call(cache, FALSE, "")>> IN
  IF ~DriverSupported(config.VMDriver)
  THEN R(st, vmState, Exit(1), c1)
  ELSE IF Fails(env, "json.Marshal")
  THEN R(st, vmState, Error("Error marshalling json"),
         Append(c1, Call("json.Marshal", TRUE, "")))
  ELSE LET c2 == Append(c1, Call("json.Marshal", FALSE, "")) IN
  IF Fails(env, "api.NewHost")
  THEN R(st, vmState, Error("Error creating new host"),
         Append(c2, Call("api.NewHost", TRUE, "")))
  ELSE LET c3 == Append(c2, Call("api.NewHost", FALSE, config.VMDriver)) IN
  IF Fails(env, "api.Create")
  THEN \* api.Create saves the record before it creates the machine
       R(IF env.partial THEN Record(config.VMDriver, vmState) ELSE st,
         vmState, Error("Error creating host"),
         Append(c3, Call("api.Create", TRUE, "")))
  ELSE LET c4 == Append(c3, Call("api.Create", FALSE, ""))
           created == Record(config.VMDriver, Running) IN
  IF Fails(env, "api.Save")
  THEN R(created, Running, Error("Error attempting to save"),
         Append(c4, Call("api.Save", TRUE, "")))
  ELSE R(Record(config.VMDriver, Running), Running, OkHost,
         Append(c4, Call("api.Save", FALSE, "")))

----------------------------------------------------------------------------
(* StartHost                                                               *)

ShouldCreate_Always(exists) == TRUE

\* if !exists { return createHost(api, config) }
ShouldCreate(exists) == ~exists

NeedsStart_Always(s) == TRUE

\* if s != state.Running { ... }
NeedsStart(s) == s # Running

ConfigureAuthAndReturn_HostOnError(st, vmState, env, calls) ==
  IF Fails(env, "ConfigureAuth")
  THEN R(st, vmState,
         [Retriable("Error configuring auth on host") EXCEPT !.host = TRUE],
         Append(calls, Call("ConfigureAuth", TRUE, "")))
  ELSE R(st, vmState, OkHost, Append(calls, Call("ConfigureAuth", FALSE, "")))

\* if err := h.ConfigureAuth(); err != nil { ... }; return h, nil
ConfigureAuthAndReturn(st, vmState, env, calls) ==
  IF Fails(env, "ConfigureAuth")
  THEN R(st, vmState, Retriable("Error configuring auth on host"),
         Append(calls, Call("ConfigureAuth", TRUE, "")))
  ELSE R(st, vmState, OkHost, Append(calls, Call("ConfigureAuth", FALSE, "")))

StartHost(st, vmState, config, env) ==
  IF Fails(env, "api.Exists")
  THEN R(st, vmState, Error("Error checking if host exists"),
         <<Call("api.Exists", TRUE, "")>>)
  ELSE LET exists == Exists(st)
           c1 == <<Call("api.Exists", FALSE,
                        IF exists THEN "true" ELSE "false")>> IN
  IF ShouldCreate(exists)
  THEN LET r == createHost(st, vmState, config, env) IN
       [r EXCEPT !.calls = c1 \o r.calls]
  ELSE IF LoadFails(st, env)
  THEN R(st, vmState, Error("Error loading existing host"),
         Append(c1, Call("api.Load", TRUE, "")))
  ELSE LET h == st
           c2 == Append(c1, Call("api.Load", FALSE, h.driver))
           gs == GetState(vmState, env)
           c3 == Append(c2, Call("Driver.GetState", gs.err, gs.s)) IN
  IF gs.err
  THEN R(st, vmState, Error("Error getting state for host"), c3)
  ELSE IF NeedsStart(gs.s)
  THEN IF StartFails(vmState, env)
       THEN R(st, vmState, Error("Error starting stopped host"),
              Append(c3, Call("Driver.Start", TRUE, "")))
       ELSE LET c4 == Append(c3, Call("Driver.Start", FALSE, "")) IN
       IF Fails(env, "api.Save")
       THEN R(st, Running, Error("Error saving started host"),
              Append(c4, Call("api.Save", TRUE, "")))
       ELSE ConfigureAuthAndReturn(Record(h.driver, Running), Running, env,
                                   Append(c4, Call("api.Save", FALSE, "")))
  ELSE ConfigureAuthAndReturn(st, vmState, env, c3)

----------------------------------------------------------------------------
(* StopHost                                                                *)

StopHost_IgnoreLoadError(st, vmState, env) ==
  LET c1 == <<Call("api.Load", LoadFails(st, env), "")>> IN
  IF StopFails(vmState, env)
  THEN R(st, vmState, Error("Error stopping host"),
         Append(c1, Call("host.Stop", TRUE, "")))
  ELSE R(st, "Stopped", Ok, Append(c1, Call("host.Stop", FALSE, "")))

StopHost(st, vmState, env) ==
  IF LoadFails(st, env)
  THEN R(st, vmState, Error("Error loading host"),
         <<Call("api.Load", TRUE, "")>>)
  ELSE LET c1 == <<Call("api.Load", FALSE, st.driver)>> IN
  IF StopFails(vmState, env)
  THEN R(st, vmState, Error("Error stopping host"),
         Append(c1, Call("host.Stop", TRUE, "")))
  ELSE R(st, "Stopped", Ok, Append(c1, Call("host.Stop", FALSE, "")))

----------------------------------------------------------------------------
(* DeleteHost                                                              *)

\* The error a failing call returns ("" is nil).
ErrOf(env, call) == IF Fails(env, call) THEN call \o " failed" ELSE ""

DeleteHost_StopAtFirstError(st, vmState, env) ==
  IF LoadFails(st, env)
  THEN R(st, vmState, Error("Error deleting host"),
         <<Call("api.Load", TRUE, "")>>)
  ELSE LET c1 == <<Call("api.Load", FALSE, st.driver)>> IN
  IF Fails(env, "Driver.Remove")
  THEN R(st, vmState, ToError(Collect(<<>>, ErrOf(env, "Driver.Remove"))),
         Append(c1, Call("Driver.Remove", TRUE, "")))
  ELSE LET c2 == Append(c1, Call("Driver.Remove", FALSE, ""))
           rmRecord == Fails(env, "api.Remove") IN
       R(IF rmRecord THEN st ELSE NoRecord, "None",
         ToError(Collect(<<>>, ErrOf(env, "api.Remove"))),
         Append(c2, Call("api.Remove", rmRecord, "")))

DeleteHost(st, vmState, env) ==
  IF LoadFails(st, env)
  THEN R(st, vmState, Error("Error deleting host"),
         <<Call("api.Load", TRUE, "")>>)
  ELSE LET c1 == <<Call("api.Load", FALSE, st.driver)>>
           m0 == <<>>
           rmDriver == Fails(env, "Driver.Remove")
           m1 == Collect(m0, ErrOf(env, "Driver.Remove"))
           c2 == Append(c1, Call("Driver.Remove", rmDriver, ""))
           rmRecord == Fails(env, "api.Remove")
           m2 == Collect(m1, ErrOf(env, "api.Remove"))
           c3 == Append(c2, Call("api.Remove", rmRecord, "")) IN
       R(IF rmRecord THEN st ELSE NoRecord,
         IF rmDriver THEN vmState ELSE "None",
         ToError(m2), c3)

----------------------------------------------------------------------------
(* GetHostStatus                                                           *)

dne == "Does Not Exist"

StatusOfState_ErrorFirst(gs) ==
  IF gs.err THEN Error("Error getting host state")
  ELSE IF gs.s = "" THEN OkStatus(dne)
  ELSE OkStatus(gs.s)

\* s, err := host.Driver.GetState(), and what GetHostStatus makes of it:
\* the empty state string is looked at before the error.
StatusOfState(gs) ==
  IF gs.s = "" THEN OkStatus(dne)
  ELSE IF gs.err THEN Error("Error getting host state")
  ELSE OkStatus(gs.s)

GetHostStatus(st, vmState, env) ==
  IF Fails(env, "api.Exists")
  THEN R(st, vmState, Error("Error checking that api exists"),
         <<Call("api.Exists", TRUE, "")>>)
  ELSE LET exists == Exists(st)
           c1 == <<Call("api.Exists", FALSE,
                        IF exists THEN "true" ELSE "false")>> IN
  IF ~exists
  THEN R(st, vmState, OkStatus(dne), c1)
  ELSE IF LoadFails(st, env)
  THEN R(st, vmState, Error("Error loading api"),
         Append(c1, Call("api.Load", TRUE, "")))
  ELSE LET c2 == Append(c1, Call("api.Load", FALSE, st.driver))
           gs == GetState(vmState, env) IN
       R(st, vmState, StatusOfState(gs),
         Append(c2, Call("Driver.GetState", gs.err, gs.s)))

----------------------------------------------------------------------------
(* EnsureMinikubeRunningOrExit                                             *)

EnsureMinikubeRunningOrExit_ExitOne(st, vmState, exitStatus, env) ==
  LET r == GetHostStatus(st, vmState, env) IN
  IF r.ret.kind # "ok" THEN [r EXCEPT !.ret = Exit(1)]
  ELSE IF r.ret.status # Running THEN [r EXCEPT !.ret = Exit(1)]
  ELSE [r EXCEPT !.ret = Ok]

EnsureMinikubeRunningOrExit(st, vmState, exitStatus, env) ==
  LET r == GetHostStatus(st, vmState, env) IN
  IF r.ret.kind # "ok" THEN [r EXCEPT !.ret = Exit(1)]
  ELSE IF r.ret.status # Running THEN [r EXCEPT !.ret = Exit(exitStatus)]
  ELSE [r EXCEPT !.ret = Ok]

----------------------------------------------------------------------------
(* The program: one command at a time against the store and the VM.        *)

\* What is remembered of an operation: its name and arguments, the store and
\* the VM it found, what it returned and the calls it made.
Op(name, driver, exitStatus, r) ==
  [op |-> name, driver |-> driver, exitStatus |-> exitStatus,
   pre |-> [store |-> store, vm |-> vm], ret |-> r.ret, calls |-> r.calls]

NoOp ==
  [op |-> "none", driver |-> "", exitStatus |-> 0,
   pre |-> [store |-> NoRecord, vm |-> "None"], ret |-> NoRet,
   calls |-> <<>>]

\* The calls of an operation, by name.
Called(o, name) == \E i \in 1..Len(o.calls) : o.calls[i].name = name

\* The state a successful Driver.GetState reported during the operation
\* ("-" when there was none).
Reported(o) ==
  IF \E i \in 1..Len(o.calls) :
       o.calls[i].name = "Driver.GetState" /\ ~o.calls[i].err
  THEN LET i == CHOOSE j \in 1..Len(o.calls) :
                  o.calls[j].name = "Driver.GetState" IN o.calls[i].val
  ELSE "-"

\* A StartHost that found the record and was told Running by the driver.
FoundRunning(o) == o.op = "StartHost" /\ Reported(o) = Running

\* What is kept of the operation before the last one, when it was a StartHost
\* that found the host Running: whether it started or saved the host, and
\* whether it left the store and the VM (st, vmState) as it found them.
Summary(o, st, vmState) ==
  IF FoundRunning(o)
  THEN [foundRunning |-> TRUE,
        started |-> Called(o, "Driver.Start"),
        saved |-> Called(o, "api.Save"),
        unchanged |-> (o.pre = [store |-> st, vm |-> vmState])]
  ELSE [foundRunning |-> FALSE, started |-> FALSE, saved |-> FALSE,
        unchanged |-> TRUE]

Init ==
  /\ store = NoRecord
  /\ vm = "None"
  /\ last = NoOp
  /\ prev = Summary(NoOp, NoRecord, "None")
  /\ remote = {}

StartHostCalls ==
  {"api.Exists", "api.Load", "Driver.GetState", "Driver.Start", "api.Save",
   "ConfigureAuth", "CacheMinikubeISOFromURL", "json.Marshal", "api.NewHost",
   "api.Create"}

DoStartHost ==
  \E d \in VMDrivers, env \in EnvsOf(StartHostCalls, FALSE) :
    LET r == StartHost(store, vm, [VMDriver |-> d], env) IN
    /\ store' = r.store
    /\ vm' = r.vm
    /\ last' = Op("StartHost", d, 0, r)
    /\ prev' = Summary(last, store, vm)
    /\ UNCHANGED remote

DoStopHost ==
  \E env \in EnvsOf({"api.Load", "host.Stop"}, FALSE) :
    LET r == StopHost(store, vm, env) IN
    /\ store' = r.store
    /\ vm' = r.vm
    /\ last' = Op("StopHost", "", 0, r)
    /\ prev' = Summary(last, store, vm)
    /\ UNCHANGED remote

DoDeleteHost ==
  \E env \in EnvsOf({"api.Load", "Driver.Remove", "api.Remove"}, TRUE) :
    LET r == DeleteHost(store, vm, env) IN
    /\ store' = r.store
    /\ vm' = r.vm
    /\ last' = Op("DeleteHost", "", 0, r)
    /\ prev' = Summary(last, store, vm)
    /\ UNCHANGED remote

StatusCalls == {"api.Exists", "api.Load", "Driver.GetState"}

DoGetHostStatus ==
  \E env \in EnvsOf(StatusCalls, FALSE) :
    LET r == GetHostStatus(store, vm, env) IN
    /\ store' = r.store
    /\ vm' = r.vm
    /\ last' = Op("GetHostStatus", "", 0, r)
    /\ prev' = Summary(last, store, vm)
    /\ UNCHANGED remote

DoEnsureMinikubeRunningOrExit ==
  \E exitStatus \in ExitStatuses, env \in EnvsOf(StatusCalls, FALSE) :
    LET r == EnsureMinikubeRunningOrExit(store, vm, exitStatus, env) IN
    /\ store' = r.store
    /\ vm' = r.vm
    /\ last' = Op("EnsureMinikubeRunningOrExit", "", exitStatus, r)
    /\ prev' = Summary(last, store, vm)
    /\ UNCHANGED remote

Next ==
  \/ DoStartHost
  \/ DoStopHost
  \/ DoDeleteHost
  \/ DoGetHostStatus
  \/ DoEnsureMinikubeRunningOrExit

Spec == Init /\ [][Next]_vars

----------------------------------------------------------------------------
(* Reading the call log of the last operation.                             *)

\* The call was made and returned no error.
CalledOk(o, name) ==
  \E i \in 1..Len(o.calls) : o.calls[i].name = name /\ ~o.calls[i].err

\* The call was made and returned an error.
CalledErr(o, name) ==
  \E i \in 1..Len(o.calls) : o.calls[i].name = name /\ o.calls[i].err

\* Every call named a comes before every call named b.
Before(o, a, b) ==
  \A i, j \in 1..Len(o.calls) :
    o.calls[i].name = a /\ o.calls[j].name = b => i < j

\* The names of the calls, in order.
Names(o) == [i \in 1..Len(o.calls) |-> o.calls[i].name]

\* The operation left the store and the VM as it found them.
Unchanged(o) == store = o.pre.store /\ vm = o.pre.vm

----------------------------------------------------------------------------
\* C1: StartHost is idempotent on a Running host: when the record exists and
\* the driver reports Running, StartHost calls neither Driver.Start nor
\* api.Save and leaves the power state and the record as they were; two such
\* calls in a row make no Start call and leave both unchanged.
Thm_C1_StartHostIdempotent ==
  FoundRunning(last) =>
    /\ last.pre.store # NoRecord
    /\ ~Called(last, "Driver.Start")
    /\ ~Called(last, "api.Save")
    /\ Unchanged(last)
    /\ prev.foundRunning => ~prev.started /\ ~prev.saved /\ prev.unchanged

\* Two StartHost calls in a row on a Running host, both successful.
Wit_C1_TwiceOnRunning ==
  /\ FoundRunning(last)
  /\ prev.foundRunning
  /\ last.ret = OkHost
  /\ vm = Running

\* C2: StartHost enters createHost (api.NewHost, api.Create) only when
\* api.Exists reported false: it never creates a host while a record exists
\* under the machine name, so the store never holds a second one.
Thm_C2_CreateOnlyWhenAbsent ==
  last.op = "StartHost"
    /\ (Called(last, "api.NewHost") \/ Called(last, "api.Create")
        \/ Called(last, "CacheMinikubeISOFromURL"))
  => /\ last.pre.store = NoRecord
     /\ last.calls[1] = Call("api.Exists", FALSE, "false")
     /\ ~Called(last, "api.Load")

\* A host created by StartHost after an earlier one was deleted.
Wit_C2_Created ==
  /\ last.op = "StartHost"
  /\ CalledOk(last, "api.Create")
  /\ last.ret = OkHost
  /\ store # NoRecord

\* C3: after every successful StartHost, on whichever path, ConfigureAuth was
\* run on the host after it reached Running and before StartHost returned;
\* a ConfigureAuth failure is returned as a RetriableError.
Claim_C3_AlwaysConfigureAuth ==
  last.op = "StartHost" =>
    /\ last.ret.kind = "ok" =>
         /\ CalledOk(last, "ConfigureAuth")
         /\ last.calls[Len(last.calls)].name = "ConfigureAuth"
         /\ Before(last, "Driver.Start", "ConfigureAuth")
         /\ Before(last, "api.Create", "ConfigureAuth")
         /\ vm = Running
    /\ CalledErr(last, "ConfigureAuth") => last.ret.kind = "retriable"

\* C4: every lifecycle operation that changes the power state saves the
\* record after the driver transition and before it returns success, so
\* that the record a later reader loads shows the new state.
Claim_C4_PersistBeforeReturn ==
  last.op \in {"StartHost", "StopHost"}
    /\ last.ret.kind = "ok" /\ vm # last.pre.vm
  => /\ CalledOk(last, "api.Save")
     /\ Before(last, "Driver.Start", "api.Save")
     /\ Before(last, "host.Stop", "api.Save")
     /\ store.saved = vm

\* A record that loaded: DeleteHost went past api.Load.
Loaded(o) == CalledOk(o, "api.Load")

\* The errors of the calls of o that failed, in call order.
RECURSIVE FailuresFrom(_, _)
FailuresFrom(o, i) ==
  IF i > Len(o.calls) THEN <<>>
  ELSE (IF o.calls[i].err THEN <<o.calls[i].name \o " failed">> ELSE <<>>)
       \o FailuresFrom(o, i + 1)

\* C5: DeleteHost on an existing (loaded) record attempts Driver.Remove and
\* api.Remove both, whatever the first returns; it returns nil iff both
\* succeeded, and otherwise an aggregate holding each failure.
Thm_C5_DeleteAggregates ==
  last.op = "DeleteHost" /\ Loaded(last) =>
    /\ Names(last) = <<"api.Load", "Driver.Remove", "api.Remove">>
    /\ last.ret.kind = "ok" <=>
         ~CalledErr(last, "Driver.Remove") /\ ~CalledErr(last, "api.Remove")
    /\ last.ret.kind \in {"ok", "error"}
    /\ last.ret.errs = FailuresFrom(last, 1)
    /\ CalledOk(last, "api.Remove") <=> store = NoRecord
    /\ CalledOk(last, "Driver.Remove") => vm = "None"

\* The driver removal failed, the record removal was still made and failed
\* too, and both failures are in the result.
Wit_C5_BothFailed ==
  /\ last.op = "DeleteHost"
  /\ CalledErr(last, "Driver.Remove")
  /\ CalledErr(last, "api.Remove")
  /\ Len(last.ret.errs) = 2

\* C6: StopHost needs a record: when the record cannot be loaded it returns
\* an error and stops nothing; when the record exists and the host is
\* Running, a StopHost that succeeds leaves the host Stopped.
Thm_C6_StopNeedsRecord ==
  last.op = "StopHost" =>
    /\ (last.pre.store = NoRecord \/ CalledErr(last, "api.Load")) =>
         /\ last.ret.kind = "error"
         /\ ~Called(last, "host.Stop")
         /\ Unchanged(last)
    /\ (last.pre.store # NoRecord /\ last.pre.vm = Running
        /\ last.ret.kind = "ok") =>
         /\ CalledOk(last, "host.Stop")
         /\ vm = "Stopped"
    /\ last.ret.kind = "ok" => last.pre.store # NoRecord

\* A Running host stopped by a StopHost that returned nil.
Wit_C6_Stopped ==
  /\ last.op = "StopHost"
  /\ last.pre.vm = Running
  /\ last.ret = Ok
  /\ vm = "Stopped"

\* createHost was entered by the last StartHost.
EnteredCreateHost(o) ==
  o.op = "StartHost" /\ Called(o, "CacheMinikubeISOFromURL")

\* No call of host creation that writes the record was made.
NothingCreated(o) ==
  /\ ~Called(o, "api.NewHost")
  /\ ~Called(o, "api.Create")
  /\ ~Called(o, "api.Save")
  /\ Unchanged(o)

\* C7 as stated: for every backend tag outside the supported set, host
\* creation terminates the process at driver selection without calling
\* api.NewHost, api.Create or api.Save, and the record is not touched.
Claim_C7_UnsupportedExits ==
  EnteredCreateHost(last) /\ last.driver \notin SupportedDrivers =>
    /\ last.ret.kind = "exit"
    /\ NothingCreated(last)

\* C7, amended: for every backend tag outside the supported set, host
\* creation calls none of api.NewHost, api.Create and api.Save and leaves
\* the record as it was; it terminates the process at driver selection when
\* the ISO was cached, and returns the caching error when it was not.
Thm_C7_UnsupportedCreatesNothing ==
  EnteredCreateHost(last) /\ last.driver \notin SupportedDrivers =>
    /\ NothingCreated(last)
    /\ CalledOk(last, "CacheMinikubeISOFromURL") =>
         /\ last.ret = Exit(1)
         /\ Names(last) = <<"api.Exists", "CacheMinikubeISOFromURL">>
    /\ CalledErr(last, "CacheMinikubeISOFromURL") =>
         last.ret = Error("Error attempting to cache minikube ISO from URL")

\* Host creation with an unsupported tag ended the process.
Wit_C7_Exited ==
  /\ EnteredCreateHost(last)
  /\ last.driver \notin SupportedDrivers
  /\ last.ret.kind = "exit"

\* C8: when api.Save fails after api.Create succeeded, StartHost returns an
\* error and a later lookup of the machine name finds no host.
Claim_C8_NoHalfCreatedRecord ==
  last.op = "StartHost" /\ CalledOk(last, "api.Create")
    /\ CalledErr(last, "api.Save")
  => /\ last.ret.kind = "error"
     /\ ~Exists(store)

\* The last call of the operation.
LastCall(o) == o.calls[Len(o.calls)]

\* C9: GetHostStatus returns "Does Not Exist" and no error when no record
\* exists, and whenever the driver's state has the empty string, even with
\* an error beside it; otherwise the state's string, or an error when the
\* existence check, the load or the state query failed.
Thm_C9_StatusToken ==
  last.op = "GetHostStatus" =>
    LET c == LastCall(last)
        noRecord == last.calls = <<Call("api.Exists", FALSE, "false")>>
        emptyState == c.name = "Driver.GetState" /\ c.val = ""
    IN /\ noRecord <=> (last.pre.store = NoRecord /\ ~c.err)
       /\ (noRecord \/ emptyState) => last.ret = OkStatus("Does Not Exist")
       /\ ~(noRecord \/ emptyState) =>
            IF c.err
            THEN last.ret.kind = "error" /\ last.ret.status = ""
            ELSE /\ c.name = "Driver.GetState"
                 /\ last.ret = OkStatus(c.val)
                 /\ c.val = last.pre.vm
       /\ Unchanged(last)

\* The state query failed and handed back the empty state, and the status
\* is the token, not an error.
Wit_C9_EmptyStateWithError ==
  /\ last.op = "GetHostStatus"
  /\ CalledErr(last, "Driver.GetState")
  /\ LastCall(last).val = ""
  /\ last.ret = OkStatus("Does Not Exist")

\* C10: EnsureMinikubeRunningOrExit returns only when the status is Running;
\* it exits with status 1 when the status check fails and with the caller's
\* status when the host is anything but Running; it starts, stops, saves
\* and removes nothing.
Thm_C10_EnsureRunningOrExit ==
  last.op = "EnsureMinikubeRunningOrExit" =>
    LET c == LastCall(last)
        emptyState == c.name = "Driver.GetState" /\ c.val = ""
        checkFailed == c.err /\ ~emptyState
        isRunning == c.name = "Driver.GetState" /\ ~c.err /\ c.val = Running
    IN /\ last.ret.kind \in {"ok", "exit"}
       /\ last.ret.kind = "ok" <=> isRunning
       /\ isRunning => last.pre.vm = Running /\ last.pre.store # NoRecord
       /\ checkFailed => last.ret = Exit(1)
       /\ (~checkFailed /\ ~isRunning) => last.ret = Exit(last.exitStatus)
       /\ Unchanged(last)
       /\ \A i \in 1..Len(last.calls) :
            last.calls[i].name \in {"api.Exists", "api.Load", "Driver.GetState"}

\* The host is stopped and the guard exits with the caller's status, which
\* is not 1.
Wit_C10_CallerStatus ==
  /\ last.op = "EnsureMinikubeRunningOrExit"
  /\ last.pre.vm = "Stopped"
  /\ last.exitStatus = MaxExitStatus
  /\ last.ret = Exit(MaxExitStatus)

----------------------------------------------------------------------------
(* SetupCerts.  A file name is the sequence of its parts, so that a suffix *)
(* is a suffix: "ca.key" is <<"ca", ".", "key">>.                          *)

certs ==
  << <<"ca", ".", "crt">>, <<"ca", ".", "key">>,
     <<"apiserver", ".", "crt">>, <<"apiserver", ".", "key">> >>

\* strings.HasSuffix(s, suffix)
HasSuffix(s, suffix) ==
  /\ Len(s) >= Len(suffix)
  /\ SubSeq(s, Len(s) - Len(suffix) + 1, Len(s)) = suffix

CertPerms_WorldReadable(cert) == "0644"

\* perms := "0644"; if strings.HasSuffix(cert, ".key") { perms = "0600" }
CertPerms(cert) == IF HasSuffix(cert, <<".", "key">>) THEN "0600" ELSE "0644"

\* The addresses d.GetIP() may return.
HostIPs == {"192.168.99.100", "10.0.0.5"}

\* The one call that fails during SetupCerts, if any: a call by name, and
\* for ReadFile and Transfer the index of the file it fails on.
NoFault == [call |-> "none", at |-> 0]

CertFaults ==
  {NoFault}
    \cup {[call |-> c, at |-> 0] :
            c \in {"Driver.GetIP", "GenerateCerts", "NewSSHClient"}}
    \cup {[call |-> c, at |-> i] :
            c \in {"ReadFile", "Transfer"}, i \in 1..Len(certs)}

FailsAt(fault, call, i) == fault = [call |-> call, at |-> i]

\* A call on a file, with the permissions it carries.
FileCall(name, err, file, perms) ==
  [name |-> name, err |-> err, val |-> "", file |-> file, perms |-> perms]

\* sshutil.Transfer overwrites the file of that name on the VM.
Put(rem, file, perms) ==
  {e \in rem : e.file # file} \cup {[file |-> file, perms |-> perms]}

\* The outcome of a bootstrap step: the files it leaves on the VM, what it
\* returned and the calls it made.
RB(rem, ret, calls) == [remote |-> rem, ret |-> ret, calls |-> calls]

RECURSIVE TransferCerts_IgnoreErrors(_, _, _, _)
TransferCerts_IgnoreErrors(rem, i, fault, calls) ==
  IF i > Len(certs) THEN RB(rem, Ok, calls)
  ELSE LET cert == certs[i]
           perms == CertPerms(cert)
           c1 == Append(calls,
                        FileCall("ReadFile", FailsAt(fault, "ReadFile", i),
                                 cert, "")) IN
       IF FailsAt(fault, "Transfer", i)
       THEN TransferCerts_IgnoreErrors(rem, i + 1, fault,
              Append(c1, FileCall("Transfer", TRUE, cert, perms)))
       ELSE TransferCerts_IgnoreErrors(Put(rem, cert, perms), i + 1, fault,
              Append(c1, FileCall("Transfer", FALSE, cert, perms)))

\* for _, cert := range certs { ... }; return nil
RECURSIVE TransferCerts(_, _, _, _)
TransferCerts(rem, i, fault, calls) ==
  IF i > Len(certs) THEN RB(rem, Ok, calls)
  ELSE LET cert == certs[i] IN
       IF FailsAt(fault, "ReadFile", i)
       THEN RB(rem, Error("Error reading file"),
               Append(calls, FileCall("ReadFile", TRUE, cert, "")))
       ELSE LET c1 == Append(calls, FileCall("ReadFile", FALSE, cert, ""))
                perms == CertPerms(cert) IN
       IF FailsAt(fault, "Transfer", i)
       THEN RB(rem, Error("Error transferring data"),
               Append(c1, FileCall("Transfer", TRUE, cert, perms)))
       ELSE TransferCerts(Put(rem, cert, perms), i + 1, fault,
                          Append(c1, FileCall("Transfer", FALSE, cert, perms)))

SetupCerts(rem, ip, fault) ==
  IF FailsAt(fault, "Driver.GetIP", 0)
  THEN RB(rem, Error("Error getting ip from driver"),
          <<Call("Driver.GetIP", TRUE, "")>>)
  ELSE LET c1 == <<Call("Driver.GetIP", FALSE, ip)>> IN
  IF FailsAt(fault, "GenerateCerts", 0)
  THEN RB(rem, Error("Error generating certs"),
          Append(c1, Call("GenerateCerts", TRUE, ip)))
  ELSE LET c2 == Append(c1, Call("GenerateCerts", FALSE, ip)) IN
  IF FailsAt(fault, "NewSSHClient", 0)
  THEN RB(rem, Error("Error creating new ssh client"),
          Append(c2, Call("NewSSHClient", TRUE, "")))
  ELSE TransferCerts(rem, 1, fault,
                     Append(c2, Call("NewSSHClient", FALSE, "")))

\* The files the operation transferred, in order.
RECURSIVE TransferredFrom(_, _)
TransferredFrom(calls, i) ==
  IF i > Len(calls) THEN <<>>
  ELSE (IF calls[i].name = "Transfer" /\ ~calls[i].err
        THEN <<calls[i].file>> ELSE <<>>)
       \o TransferredFrom(calls, i + 1)

Transferred(o) == TransferredFrom(o.calls, 1)

\* What is remembered of a bootstrap step, and of the one before it.
BootOp(name, ip, r) ==
  [op |-> name, ip |-> ip, pre |-> remote, ret |-> r.ret, calls |-> r.calls]

BootSummary(o) ==
  [op |-> o.op, kind |-> o.ret.kind,
   transferred |-> IF o.op = "none" THEN 0 ELSE Len(Transferred(o))]

\* A host that is up: the driver handed to SetupCerts is that of a created,
\* running machine.
InitBoot ==
  /\ store = Record("virtualbox", Running)
  /\ vm = Running
  /\ last = NoOp
  /\ prev = BootSummary(NoOp)
  /\ remote = {}

DoSetupCerts ==
  \E ip \in HostIPs, fault \in CertFaults :
    LET r == SetupCerts(remote, ip, fault) IN
    /\ remote' = r.remote
    /\ last' = BootOp("SetupCerts", ip, r)
    /\ prev' = BootSummary(last)
    /\ UNCHANGED <<store, vm>>

NextCerts == DoSetupCerts

SpecCerts == InitBoot /\ [][NextCerts]_vars

\* C11: in SetupCerts every certificate file whose name ends in .key is
\* transferred with 0600 and every other one with 0644; no .key file is
\* ever transferred, or left on the VM, with 0644.
Thm_C11_KeyPerms ==
  /\ last.op = "SetupCerts" =>
       \A i \in 1..Len(last.calls) :
         last.calls[i].name = "Transfer" =>
           LET f == last.calls[i].file IN
           last.calls[i].perms =
             IF f[Len(f)] = "key" /\ f[Len(f) - 1] = "." THEN "0600"
             ELSE "0644"
  /\ \A e \in remote :
       e.perms = IF e.file[Len(e.file)] = "key" THEN "0600" ELSE "0644"

\* Both kinds of file have been transferred: all four are on the VM.
Wit_C11_AllOnVM ==
  /\ last.op = "SetupCerts"
  /\ [file |-> <<"ca", ".", "key">>, perms |-> "0600"] \in remote
  /\ [file |-> <<"apiserver", ".", "crt">>, perms |-> "0644"] \in remote
  /\ Cardinality(remote) = 4

\* The call that failed in the last operation (0: none did).
FailedAt(o) ==
  IF \E i \in 1..Len(o.calls) : o.calls[i].err
  THEN CHOOSE i \in 1..Len(o.calls) : o.calls[i].err
  ELSE 0

\* C12: SetupCerts stops at the first failure: when the IP lookup or the
\* generation fails no file is transferred; when reading or transferring
\* the i-th file fails no later file is transferred and an error is
\* returned; it returns success only when all four files were transferred,
\* and a run after a failed one transfers all four again.
Thm_C12_AbortOnFirstFailure ==
  last.op = "SetupCerts" =>
    LET k == FailedAt(last)
        done == Transferred(last) IN
    /\ k # 0 =>
         /\ k = Len(last.calls)
         /\ last.ret.kind = "error"
         /\ last.calls[k].name \in {"Driver.GetIP", "GenerateCerts",
                                    "NewSSHClient"} => done = <<>>
         /\ last.calls[k].name \in {"ReadFile", "Transfer"} =>
              \E i \in 1..Len(certs) :
                /\ last.calls[k].file = certs[i]
                /\ done = SubSeq(certs, 1, i - 1)
    /\ last.ret.kind = "ok" <=> k = 0
    /\ last.ret.kind = "ok" =>
         /\ done = certs
         /\ \A i \in 1..Len(certs) : \E e \in remote : e.file = certs[i]
    /\ last.ret.kind \in {"ok", "error"}

\* A run that failed after two files, then a run that transferred all four.
Wit_C12_RerunAfterFailure ==
  /\ last.op = "SetupCerts"
  /\ prev.op = "SetupCerts"
  /\ prev.kind = "error"
  /\ prev.transferred = 2
  /\ last.ret = Ok
  /\ Len(Transferred(last)) = 4

----------------------------------------------------------------------------
(* UpdateCluster and StartCluster                                          *)

\* constants.DefaultKubernetesVersion, and a version that is not it.
DefaultKubernetesVersion == "v1.5.1"

KubernetesVersions == {DefaultKubernetesVersion, "v1.4.6"}

localkubeURIWasSpecified_Inverted(config) ==
  config.KubernetesVersion = DefaultKubernetesVersion

\* see if flag is different than default -> it was passed by user
localkubeURIWasSpecified(config) ==
  config.KubernetesVersion # DefaultKubernetesVersion

\* assets.Addons: the add-on bundles and the files of each.
Addons == {"addon-manager", "dashboard"}

AddonAssets(bundle) ==
  IF bundle = "addon-manager"
  THEN << <<"addon-manager", ".", "yaml">> >>
  ELSE << <<"dashboard-rc", ".", "yaml">>, <<"dashboard-svc", ".", "yaml">> >>

\* The orders in which a range over assets.Addons may visit the bundles.
AddonOrders ==
  {o \in [1..Cardinality(Addons) -> Addons] :
     \A i, j \in DOMAIN o : i # j => o[i] # o[j]}

\* What addonBundle.IsEnabled() returns: true, false, or an error.
Enablements == [Addons -> {"true", "false", "error"}]

\* Most files assets.AddMinikubeAddonsDirToAssets finds in the user's
\* directory.
MaxFileAssets == 1

UserFile(i) == <<"user", ToString(i), ".", "yaml">>

FileAssets == {[i \in 1..n |-> UserFile(i)] : n \in 0..MaxFileAssets}

\* The longest transfer list.
MaxTransfers == 3 + MaxFileAssets

ClusterFaults ==
  {NoFault}
    \cup {[call |-> c, at |-> 0] : c \in {"NewSSHClient", "updateLocalkube"}}
    \cup {[call |-> "TransferFile", at |-> i] : i \in 1..MaxTransfers}

\* isEnabled, err := addonBundle.IsEnabled(); err == nil && isEnabled
IsEnabledAndOk(e) == e = "true"

\* for _, addonBundle := range assets.Addons { ... }: the list of the files
\* of the enabled bundles, or the error of the first IsEnabled that fails.
RECURSIVE MergeAddons(_, _, _, _, _)
MergeAddons(order, en, i, files, calls) ==
  IF i > Len(order) THEN [err |-> FALSE, files |-> files, calls |-> calls]
  ELSE LET b == order[i]
           c == Append(calls, Call("IsEnabled", en[b] = "error", b)) IN
       IF IsEnabledAndOk(en[b])
       THEN MergeAddons(order, en, i + 1, files \o AddonAssets(b), c)
       ELSE IF en[b] = "error"
       THEN [err |-> TRUE, files |-> files, calls |-> c]
       ELSE MergeAddons(order, en, i + 1, files, c)

RECURSIVE TransferFiles_ReturnNilOnError(_, _, _, _, _)
TransferFiles_ReturnNilOnError(rem, files, i, fault, calls) ==
  IF i > Len(files) THEN RB(rem, Ok, calls)
  ELSE IF FailsAt(fault, "TransferFile", i)
  THEN RB(rem, Ok, Append(calls, FileCall("Transfer", TRUE, files[i], "")))
  ELSE TransferFiles_ReturnNilOnError(Put(rem, files[i], ""), files, i + 1,
         fault, Append(calls, FileCall("Transfer", FALSE, files[i], "")))

\* for _, copyableFile := range copyableFiles { ... }; return nil
RECURSIVE TransferFiles(_, _, _, _, _)
TransferFiles(rem, files, i, fault, calls) ==
  IF i > Len(files) THEN RB(rem, Ok, calls)
  ELSE IF FailsAt(fault, "TransferFile", i)
  THEN RB(rem, Error("TransferFile"),
          Append(calls, FileCall("Transfer", TRUE, files[i], "")))
  ELSE TransferFiles(Put(rem, files[i], ""), files, i + 1, fault,
                     Append(calls, FileCall("Transfer", FALSE, files[i], "")))

UpdateCluster(rem, config, order, en, fileAssets, fault) ==
  IF FailsAt(fault, "NewSSHClient", 0)
  THEN RB(rem, Error("Error creating new ssh client"),
          <<Call("NewSSHClient", TRUE, "")>>)
  ELSE LET c1 == <<Call("NewSSHClient", FALSE, "")>>
           fromURI == localkubeURIWasSpecified(config)
           update == IF fromURI THEN "updateLocalkubeFromURI"
                     ELSE "updateLocalkubeFromAsset" IN
  IF FailsAt(fault, "updateLocalkube", 0)
  THEN RB(rem,
          Error(IF fromURI THEN "Error updating localkube from uri"
                ELSE "Error updating localkube from asset"),
          Append(c1, Call(update, TRUE, config.KubernetesVersion)))
  ELSE LET c2 == Append(c1, Call(update, FALSE, config.KubernetesVersion))
           rem1 == Put(rem, <<"localkube">>, "")
           merged == MergeAddons(order, en, 1, <<>>, c2) IN
  IF merged.err
  THEN RB(rem1, Error("IsEnabled"), merged.calls)
  ELSE TransferFiles(rem1, merged.files \o fileAssets, 1, fault, merged.calls)

\* The error errors.Wrapf(cause, msg) makes: it keeps its cause.
Wrap(cause, msg) ==
  [NoRet EXCEPT !.kind = "error", !.msg = msg, !.errs = <<cause>>]

\* The command GetStartCommand renders from the configuration.
StartCommand(config) == "localkube start " \o config.KubernetesVersion

StartFaults ==
  {NoFault}
    \cup {[call |-> c, at |-> 0] : c \in {"GetStartCommand", "RunSSHCommand"}}

StartCluster_RunAnyway(rem, config, fault) ==
  LET c1 == <<Call("GetStartCommand", FailsAt(fault, "GetStartCommand", 0),
                   StartCommand(config))>> IN
  IF FailsAt(fault, "RunSSHCommand", 0)
  THEN RB(rem, Wrap("RunSSHCommand failed", "Error running ssh command"),
          Append(c1, Call("RunSSHCommand", TRUE, StartCommand(config))))
  ELSE RB(rem, Ok,
          Append(c1, Call("RunSSHCommand", FALSE, StartCommand(config))))

StartCluster(rem, config, fault) ==
  IF FailsAt(fault, "GetStartCommand", 0)
  THEN RB(rem, Wrap("GetStartCommand failed", "Error generating start command"),
          <<Call("GetStartCommand", TRUE, "")>>)
  ELSE LET startCommand == StartCommand(config)
           c1 == <<Call("GetStartCommand", FALSE, startCommand)>> IN
  IF FailsAt(fault, "RunSSHCommand", 0)
  THEN RB(rem, Wrap("RunSSHCommand failed", "Error running ssh command"),
          Append(c1, Call("RunSSHCommand", TRUE, startCommand)))
  ELSE RB(rem, Ok, Append(c1, Call("RunSSHCommand", FALSE, startCommand)))

\* What is remembered of UpdateCluster and StartCluster: the arguments too.
ClusterOp(name, in, r) ==
  [op |-> name, in |-> in, pre |-> remote, ret |-> r.ret, calls |-> r.calls]

NoInput ==
  [version |-> "", order |-> <<>>, en |-> <<>>, fileAssets |-> <<>>]

\* Of the step before the last: what it was, how it ended and the files it
\* sent.
ClusterSummary(o) ==
  [op |-> o.op, kind |-> o.ret.kind,
   sent |-> IF o.op = "UpdateCluster"
            THEN {Transferred(o)[i] : i \in 1..Len(Transferred(o))} ELSE {},
   in |-> IF o.op = "UpdateCluster" THEN o.in ELSE NoInput]

\* One bootstrap of a host that is up and has been sent nothing yet.
InitCluster ==
  /\ store = Record("virtualbox", Running)
  /\ vm = Running
  /\ last = NoOp
  /\ prev = ClusterSummary(NoOp)
  /\ remote = {}

DoUpdateCluster ==
  /\ last.op = "none"
  /\ \E v \in KubernetesVersions, order \in AddonOrders, en \in Enablements,
        fileAssets \in FileAssets, fault \in ClusterFaults :
       LET r == UpdateCluster(remote, [KubernetesVersion |-> v], order, en,
                              fileAssets, fault) IN
       /\ remote' = r.remote
       /\ last' = ClusterOp("UpdateCluster",
                            [version |-> v, order |-> order, en |-> en,
                             fileAssets |-> fileAssets], r)
       /\ prev' = ClusterSummary(last)
       /\ UNCHANGED <<store, vm>>

\* The caller goes on to StartCluster only when UpdateCluster returned nil.
DoStartCluster ==
  /\ last.op = "UpdateCluster"
  /\ last.ret.kind = "ok"
  /\ \E v \in KubernetesVersions, fault \in StartFaults :
       LET r == StartCluster(remote, [KubernetesVersion |-> v], fault) IN
       /\ remote' = r.remote
       /\ last' = ClusterOp("StartCluster",
                            [NoInput EXCEPT !.version = v], r)
       /\ prev' = ClusterSummary(last)
       /\ UNCHANGED <<store, vm>>

NextCluster == DoUpdateCluster \/ DoStartCluster

SpecCluster == InitCluster /\ [][NextCluster]_vars

\* C13: UpdateCluster pushes the control-plane binary from one source per
\* call, never from both: from the URI iff the configured version differs
\* from the default one, else from the bundled asset; the push comes right
\* after the channel is established and before any add-on or file asset is
\* looked at or transferred.  Without a channel nothing is pushed.
Thm_C13_OneBinarySource ==
  last.op = "UpdateCluster" =>
    LET isUpdate(c) == c.name \in {"updateLocalkubeFromURI",
                                   "updateLocalkubeFromAsset"}
        updates == {i \in 1..Len(last.calls) : isUpdate(last.calls[i])}
    IN /\ last.calls[1].name = "NewSSHClient"
       /\ last.calls[1].err => updates = {}
       /\ ~last.calls[1].err =>
            /\ updates = {2}
            /\ last.calls[2].name =
                 IF last.in.version = "v1.5.1"
                 THEN "updateLocalkubeFromAsset" ELSE "updateLocalkubeFromURI"
       /\ \A i \in 1..Len(last.calls) :
            last.calls[i].name \in {"Transfer", "IsEnabled"} =>
              i > 2 /\ ~last.calls[2].err

\* A version that is not the default: the binary came from the URI, and an
\* add-on file went after it.
Wit_C13_FromURI ==
  /\ last.op = "UpdateCluster"
  /\ last.in.version # "v1.5.1"
  /\ CalledOk(last, "updateLocalkubeFromURI")
  /\ Len(Transferred(last)) > 0

\* The transfer list the claim describes: the files of the enabled bundles,
\* bundle after bundle in the order visited, then the user's files.
RECURSIVE EnabledAssets(_, _)
EnabledAssets(in, i) ==
  IF i > Len(in.order) THEN <<>>
  ELSE (IF in.en[in.order[i]] = "true" THEN AddonAssets(in.order[i])
        ELSE <<>>) \o EnabledAssets(in, i + 1)

TransferList(in) == EnabledAssets(in, 1) \o in.fileAssets

ToSet(seq) == {seq[i] : i \in 1..Len(seq)}

\* C14: UpdateCluster returns success only after every entry of the transfer
\* list was transferred; the list is the assets of every enabled bundle
\* followed by the user's file assets; no asset of a disabled bundle is
\* transferred; an enablement error or the first failing transfer ends it
\* with an error and nothing further is transferred; so StartCluster, called
\* only after a successful UpdateCluster, finds every transfer complete.
Thm_C14_AllTransferredBeforeStart ==
  /\ (last.op = "UpdateCluster" /\ last.calls[Len(last.calls)].name
                                     \in {"Transfer", "IsEnabled"}) =>
       LET list == TransferList(last.in)
           sent == Transferred(last)
           enErr == \E b \in Addons : last.in.en[b] = "error"
       IN /\ last.ret.kind = "ok" => sent = list /\ ToSet(list) \subseteq
                                       {e.file : e \in remote}
          /\ enErr => last.ret.kind = "error" /\ ~Called(last, "Transfer")
          /\ CalledErr(last, "Transfer") =>
               /\ last.ret.kind = "error"
               /\ \E k \in 1..Len(list) :
                    /\ sent = SubSeq(list, 1, k - 1)
                    /\ LastCall(last).file = list[k]
                    /\ LastCall(last).err
          /\ \A b \in Addons, i \in 1..Len(last.calls) :
               (last.in.en[b] = "false" /\ last.calls[i].name = "Transfer")
               => last.calls[i].file \notin ToSet(AddonAssets(b))
  /\ (last.op = "UpdateCluster" /\ last.ret.kind = "ok") =>
       Transferred(last) = TransferList(last.in)
  /\ last.op = "StartCluster" =>
       /\ prev.op = "UpdateCluster"
       /\ prev.kind = "ok"
       /\ prev.sent = ToSet(TransferList(prev.in))
       /\ prev.sent \subseteq {e.file : e \in last.pre}

\* The cluster is started after an update that sent the add-on manager and
\* a user file and left out the disabled dashboard.
Wit_C14_StartAfterUpdate ==
  /\ last.op = "StartCluster"
  /\ prev.in.en["addon-manager"] = "true"
  /\ prev.in.en["dashboard"] = "false"
  /\ Len(prev.in.fileAssets) = 1
  /\ Cardinality(prev.sent) = 2

\* C20: StartCluster runs the remote start command only after it was
\* rendered from the configuration: when the construction fails nothing is
\* run and an error is returned; when the remote run fails the error wraps
\* its cause; nil is returned only when both steps succeeded.
Thm_C20_StartCluster ==
  last.op = "StartCluster" =>
    /\ last.calls[1].name = "GetStartCommand"
    /\ CalledErr(last, "GetStartCommand") =>
         /\ ~Called(last, "RunSSHCommand")
         /\ last.ret.kind = "error"
         /\ last.ret.errs = <<"GetStartCommand failed">>
    /\ Called(last, "RunSSHCommand") =>
         /\ Len(last.calls) = 2
         /\ ~last.calls[1].err
         /\ last.calls[2].name = "RunSSHCommand"
         /\ last.calls[2].val = "localkube start " \o last.in.version
    /\ CalledErr(last, "RunSSHCommand") =>
         /\ last.ret.kind = "error"
         /\ last.ret.errs = <<"RunSSHCommand failed">>
    /\ last.ret.kind = "ok" <=>
         CalledOk(last, "GetStartCommand") /\ CalledOk(last, "RunSSHCommand")
    /\ remote = last.pre

\* The command was rendered, the remote run failed, and the error returned
\* carries that failure.
Wit_C20_RemoteRunFailed ==
  /\ last.op = "StartCluster"
  /\ CalledOk(last, "GetStartCommand")
  /\ CalledErr(last, "RunSSHCommand")
  /\ last.ret.errs = <<"RunSSHCommand failed">>

----------------------------------------------------------------------------
(* Service discovery on the running cluster: RetryAfter, CheckService and  *)
(* checkEndpointReady, and the two resolvers of service URLs.              *)

\* Most attempts a caller of RetryAfter allows in the model.
MaxAttempts == 3

\* What the operation handed to RetryAfter may return on one attempt.
Outcomes == {Ok, Retriable("not ready yet"), Error("permanent")}

\* What the operation returns attempt after attempt.
Operations == [1..MaxAttempts -> Outcomes]

\* The outcome of a function that touches neither the store nor the VM.
SR(ret, calls) == [ret |-> ret, calls |-> calls]

KeepTrying_OffByOne(i, maxAttempts) == i + 1 < maxAttempts

\* Another attempt follows attempt i.
KeepTrying(i, maxAttempts) == i < maxAttempts

\* RetryAfter(maxAttempts, operation, interval): operation is invoked up to
\* maxAttempts times, with a sleep of interval between attempts; the first
\* success ends it, and the last error is returned when every attempt failed.
RECURSIVE RetryAfter(_, _, _, _)
RetryAfter(maxAttempts, operation, i, calls) ==
  LET err == operation[i]
      c == Append(calls, Call("operation", err.kind # "ok", ToString(i))) IN
  IF err.kind = "ok" THEN SR(Ok, c)
  ELSE IF KeepTrying(i, maxAttempts)
  THEN RetryAfter(maxAttempts, operation, i + 1,
                  Append(c, Call("time.Sleep", FALSE, "")))
  ELSE SR(err, c)

\* Most subsets of an Endpoints object, and most addresses of a subset.
MaxSubsets == 2

MaxAddresses == 2

\* v1.EndpointSubset: its ready addresses (the pods behind the service are
\* told apart by their position only).
Subsets ==
  {[Addresses |-> [i \in 1..n |-> "172.17.0." \o ToString(i + 1)]] :
     n \in 0..MaxAddresses}

\* v1.Endpoints
Endpoints ==
  UNION {{[Subsets |-> ss] : ss \in [1..n -> Subsets]} : n \in 0..MaxSubsets}

RECURSIVE checkSubsets(_, _)
checkSubsets(endpoint, i) ==
  IF i > Len(endpoint.Subsets) THEN Ok
  ELSE IF Len(endpoint.Subsets[i].Addresses) = 0
  THEN Retriable("No endpoints for service are ready yet")
  ELSE checkSubsets(endpoint, i + 1)

checkEndpointReady(endpoint) ==
  IF Len(endpoint.Subsets) = 0
  THEN Retriable("Endpoint for service is not ready yet")
  ELSE checkSubsets(endpoint, 1)

CheckFaults ==
  {NoFault}
    \cup {[call |-> c, at |-> 0] : c \in {"GetKubernetesClient", "endpoints.Get"}}

CheckService(endpoint, fault) ==
  IF FailsAt(fault, "GetKubernetesClient", 0)
  THEN SR(Retriable("Error creating kubeConfig"),
          <<Call("GetKubernetesClient", TRUE, "")>>)
  ELSE LET c1 == <<Call("GetKubernetesClient", FALSE, "")>> IN
  IF FailsAt(fault, "endpoints.Get", 0)
  THEN SR(Retriable("endpoints.Get"),
          Append(c1, Call("endpoints.Get", TRUE, "")))
  ELSE SR(checkEndpointReady(endpoint),
          Append(c1, Call("endpoints.Get", FALSE, "")))

\* What a resolver of service URLs returns: []string or ServiceURLs, and an
\* error; MissingNodePortError is an error of a type of its own.
NoURLs == [kind |-> "none", msg |-> "", urls |-> <<>>, entries |-> <<>>]

OkURLs(urls) == [NoURLs EXCEPT !.kind = "ok", !.urls = urls]

OkServiceURLs(entries) == [NoURLs EXCEPT !.kind = "ok", !.entries = entries]

ErrorURLs(msg) == [NoURLs EXCEPT !.kind = "error", !.msg = msg]

MissingNodePortError == [NoURLs EXCEPT !.kind = "MissingNodePortError"]

\* A *template.Template: nil, or the parsed text, a list of literal pieces
\* and {{.Field}} actions.
NilTemplate == [nil |-> TRUE, text |-> <<>>]

Template(text) == [nil |-> FALSE, text |-> text]

DefaultTemplate == Template(<<"http://", "{{.IP}}", ":", "{{.Port}}">>)

Templates ==
  {NilTemplate, DefaultTemplate,
   Template(<<"HTTP://", "{{.IP}}", ":", "{{.Port}}">>),
   Template(<<"http://", "{{.Host}}", ":", "{{.Port}}">>),
   Template(<<":", "{{.Port}}">>)}

IsAction(piece) == piece \in {"{{.IP}}", "{{.Port}}", "{{.Host}}"}

\* t.Execute(&doc, struct{IP string; Port int32}{ip, port}): the literal
\* pieces as they are, the fields of the struct for the actions; a field the
\* struct does not have is an error.
Execute(t, ip, port) ==
  IF \E i \in 1..Len(t.text) : IsAction(t.text[i])
                               /\ t.text[i] \notin {"{{.IP}}", "{{.Port}}"}
  THEN [err |-> TRUE, doc |-> <<>>]
  ELSE [err |-> FALSE,
        doc |-> [i \in 1..Len(t.text) |->
                   IF t.text[i] = "{{.IP}}" THEN ip
                   ELSE IF t.text[i] = "{{.Port}}" THEN ToString(port)
                   ELSE t.text[i]]]

\* url.Parse: a text that begins with a colon has no scheme and is refused;
\* the scheme is kept in lower case.
Parse(doc) ==
  IF Len(doc) > 0 /\ doc[1] = ":" THEN [err |-> TRUE, u |-> <<>>]
  ELSE [err |-> FALSE,
        u |-> [i \in 1..Len(doc) |->
                 IF i = 1 /\ doc[i] = "HTTP://" THEN "http://" ELSE doc[i]]]

\* u.String()
String(u) == u

\* Node ports a service port may carry (0: none assigned), and most ports
\* of a service.
NodePorts == {0, 30000, 31000}

MaxPorts == 2

PortLists(n) == UNION {[1..k -> NodePorts] : k \in 0..n}

\* v1.Service
Service(name, ports) ==
  [Namespace |-> "default", Name |-> name, Ports |-> ports]

IsNodePort_OrZero(nodePort) == nodePort >= 0

\* port.NodePort > 0
IsNodePort(nodePort) == nodePort > 0

\* getServicePortsFromServiceGetter; getFails: services.Get returns an error.
getServicePortsFromServiceGetter(svc, getFails, calls) ==
  IF getFails
  THEN [ret |-> ErrorURLs("Error getting service"), nodePorts |-> <<>>,
        calls |-> Append(calls, Call("services.Get", TRUE, svc.Name))]
  ELSE LET nodePorts == SelectSeq(svc.Ports, IsNodePort)
           c == Append(calls, Call("services.Get", FALSE, svc.Name)) IN
       IF Len(nodePorts) = 0
       THEN [ret |-> MissingNodePortError, nodePorts |-> <<>>, calls |-> c]
       ELSE [ret |-> OkURLs(<<>>), nodePorts |-> nodePorts, calls |-> c]

\* for _, port := range ports { ... }; return urls, nil
RECURSIVE RenderURLs(_, _, _, _, _, _)
RenderURLs(ip, ports, t, i, urls, calls) ==
  IF i > Len(ports) THEN SR(OkURLs(urls), calls)
  ELSE LET doc == Execute(t, ip, ports[i])
           c1 == Append(calls, Call("t.Execute", doc.err, ToString(ports[i])))
       IN
  IF doc.err THEN SR(ErrorURLs("t.Execute"), c1)
  ELSE LET parsed == Parse(doc.doc)
           c2 == Append(c1, Call("url.Parse", parsed.err, ToString(ports[i])))
       IN
  IF parsed.err THEN SR(ErrorURLs("url.Parse"), c2)
  ELSE RenderURLs(ip, ports, t, i + 1, Append(urls, String(parsed.u)), c2)

getServiceURLsWithClient(ip, svc, getFails, t, calls) ==
  IF t.nil
  THEN SR(ErrorURLs("Error, attempted to generate service url with nil --format template"),
          calls)
  ELSE LET ports == getServicePortsFromServiceGetter(svc, getFails, calls) IN
  IF ports.ret.kind # "ok" THEN SR(ports.ret, ports.calls)
  ELSE RenderURLs(ip, ports.nodePorts, t, 1, <<>>, ports.calls)

\* CheckIfApiExistsAndLoad
CheckIfApiExistsAndLoad(st, fault) ==
  IF FailsAt(fault, "api.Exists", 0)
  THEN SR(ErrorURLs("Error checking that api exists"),
          <<Call("api.Exists", TRUE, "")>>)
  ELSE LET c1 == <<Call("api.Exists", FALSE, "")>> IN
  IF ~Exists(st) THEN SR(ErrorURLs("Machine does not exist"), c1)
  ELSE IF FailsAt(fault, "api.Load", 0)
  THEN SR(ErrorURLs("Error loading api"),
          Append(c1, Call("api.Load", TRUE, "")))
  ELSE SR(OkURLs(<<>>), Append(c1, Call("api.Load", FALSE, "")))

\* The steps both resolvers begin with: the host, its IP and the client.
HostIPAndClient(st, fault) ==
  LET host == CheckIfApiExistsAndLoad(st, fault) IN
  IF host.ret.kind # "ok" THEN host
  ELSE IF FailsAt(fault, "Driver.GetIP", 0)
  THEN SR(ErrorURLs("Error getting ip from host"),
          Append(host.calls, Call("Driver.GetIP", TRUE, "")))
  ELSE LET c2 == Append(host.calls, Call("Driver.GetIP", FALSE, "")) IN
  IF FailsAt(fault, "GetKubernetesClient", 0)
  THEN SR(ErrorURLs("Error creating kubeConfig"),
          Append(c2, Call("GetKubernetesClient", TRUE, "")))
  ELSE SR(OkURLs(<<>>), Append(c2, Call("GetKubernetesClient", FALSE, "")))

GetServiceURLsForService(st, ip, svc, t, fault) ==
  LET client == HostIPAndClient(st, fault) IN
  IF client.ret.kind # "ok" THEN client
  ELSE getServiceURLsWithClient(ip, svc, FailsAt(fault, "services.Get", 1), t,
                                client.calls)

\* ServiceURL{Namespace, Name, URLs}
ServiceURL(svc, urls) ==
  [Namespace |-> svc.Namespace, Name |-> svc.Name, URLs |-> urls]

IsMissingNodePortError_Never(err) == FALSE

\* _, ok := err.(MissingNodePortError); ok
IsMissingNodePortError(err) == err.kind = "MissingNodePortError"

\* for _, svc := range svcs.Items { ... }; return serviceURLs, nil
RECURSIVE ResolveAll(_, _, _, _, _, _, _)
ResolveAll(ip, svcs, t, fault, i, serviceURLs, calls) ==
  IF i > Len(svcs) THEN SR(OkServiceURLs(serviceURLs), calls)
  ELSE LET r == getServiceURLsWithClient(ip, svcs[i],
                  FailsAt(fault, "services.Get", i), t, calls) IN
  IF r.ret.kind # "ok"
  THEN IF IsMissingNodePortError(r.ret)
       THEN ResolveAll(ip, svcs, t, fault, i + 1,
                       Append(serviceURLs, ServiceURL(svcs[i], <<>>)), r.calls)
       ELSE SR(r.ret, r.calls)
  ELSE ResolveAll(ip, svcs, t, fault, i + 1,
                  Append(serviceURLs, ServiceURL(svcs[i], r.ret.urls)),
                  r.calls)

GetServiceURLs(st, ip, svcs, t, fault) ==
  LET client == HostIPAndClient(st, fault) IN
  IF client.ret.kind # "ok" THEN client
  ELSE IF FailsAt(fault, "services.List", 0)
  THEN SR(ErrorURLs("services.List"),
          Append(client.calls, Call("services.List", TRUE, "")))
  ELSE ResolveAll(ip, svcs, t, fault, 1, <<>>,
                  Append(client.calls, Call("services.List", FALSE, "")))

\* Most services of the namespace, and most ports of a listed service.
MaxServices == 2

MaxListedPorts == 1

\* What services.List returns: the services of the namespace.
Listings ==
  UNION {{[i \in 1..n |-> Service("svc" \o ToString(i), ports[i])] :
            ports \in [1..n -> PortLists(MaxListedPorts)]} : n \in 0..MaxServices}

HostFaults ==
  {NoFault}
    \cup {[call |-> c, at |-> 0] :
            c \in {"api.Exists", "api.Load", "Driver.GetIP",
                   "GetKubernetesClient"}}

ServiceFaults ==
  HostFaults \cup {[call |-> "services.List", at |-> 0]}
    \cup {[call |-> "services.Get", at |-> i] : i \in 1..MaxServices}

ServiceOp(name, in, r) ==
  [op |-> name, in |-> in, pre |-> [store |-> store, vm |-> vm],
   ret |-> r.ret, calls |-> r.calls]

\* A machine that was created and runs, or none.
InitService ==
  /\ \/ store = Record("virtualbox", Running) /\ vm = Running
     \/ store = NoRecord /\ vm = "None"
  /\ last = NoOp
  /\ prev = NoOp
  /\ remote = {}

DoRetryAfter ==
  /\ last.op = "none"
  /\ \E maxAttempts \in 1..MaxAttempts, operation \in Operations :
       last' = ServiceOp("RetryAfter",
                         [maxAttempts |-> maxAttempts, operation |-> operation],
                         RetryAfter(maxAttempts, operation, 1, <<>>))
  /\ UNCHANGED <<store, vm, prev, remote>>

DoCheckService ==
  /\ last.op = "none"
  /\ \E endpoint \in Endpoints, fault \in CheckFaults :
       last' = ServiceOp("CheckService", [endpoint |-> endpoint],
                         CheckService(endpoint, fault))
  /\ UNCHANGED <<store, vm, prev, remote>>

DoGetServiceURLsForService ==
  /\ last.op = "none"
  /\ \E ip \in HostIPs, ports \in PortLists(MaxPorts), t \in Templates,
        fault \in HostFaults \cup {[call |-> "services.Get", at |-> 1]} :
       LET svc == Service("svc1", ports) IN
       last' = ServiceOp("GetServiceURLsForService",
                         [ip |-> ip, svc |-> svc, t |-> t],
                         GetServiceURLsForService(store, ip, svc, t, fault))
  /\ UNCHANGED <<store, vm, prev, remote>>

DoGetServiceURLs ==
  /\ last.op = "none"
  /\ \E ip \in HostIPs, svcs \in Listings, t \in Templates,
        fault \in ServiceFaults :
       last' = ServiceOp("GetServiceURLs",
                         [ip |-> ip, svcs |-> svcs, t |-> t, fault |-> fault],
                         GetServiceURLs(store, ip, svcs, t, fault))
  /\ UNCHANGED <<store, vm, prev, remote>>

\* util.RetryAfter(20, ...): the attempts WaitAndMaybeOpenService allows.
RetryAttempts == 20

\* What one poll of CheckService meets: the Endpoints object of the service
\* and the call that fails, if any.
Checks ==
  [endpoint : {e \in Endpoints :
                 /\ Len(e.Subsets) <= 1
                 /\ \A i \in 1..Len(e.Subsets) :
                      Len(e.Subsets[i].Addresses) <= 1},
   fault : CheckFaults]

\* What the polls meet, one after the other: a service that is ready from
\* some poll on, or never (what comes after the first success is not looked
\* at any more).
Polls ==
  {[i \in 1..RetryAttempts |-> IF i <= k THEN bad ELSE good] :
     k \in 0..RetryAttempts,
     bad \in {c \in Checks : CheckService(c.endpoint, c.fault).ret.kind # "ok"},
     good \in {c \in Checks : CheckService(c.endpoint, c.fault).ret.kind = "ok"}}

\* The templates a caller of WaitAndMaybeOpenService passes.
OpenTemplates ==
  {NilTemplate, DefaultTemplate,
   Template(<<"tcp://", "{{.IP}}", ":", "{{.Port}}">>)}

\* strings.Replace(url, "http", "https", 1)
ReplaceHTTP(url) ==
  [i \in 1..Len(url) |->
     IF i = 1 /\ url[i] = "http://" THEN "https://" ELSE url[i]]

\* strings.HasPrefix(url, "http")
HasPrefixHTTP(url) == Len(url) > 0 /\ url[1] \in {"http://", "https://"}

\* What WaitAndMaybeOpenService has done when it ends: it returned or the
\* process exited, and the URLs it printed and opened in the browser.
Done(kind, code, printed, opened) ==
  [kind |-> kind, code |-> code, printed |-> printed, opened |-> opened]

\* for _, url := range urls { ... }
RECURSIVE OpenURLs(_, _, _, _, _, _, _)
OpenURLs(urls, urlMode, https, i, printed, opened, calls) ==
  IF i > Len(urls) THEN SR(Done("ok", 0, printed, opened), calls)
  ELSE LET url == IF https THEN ReplaceHTTP(urls[i]) ELSE urls[i] IN
       IF urlMode \/ ~HasPrefixHTTP(url)
       THEN OpenURLs(urls, urlMode, https, i + 1, Append(printed, url), opened,
                     Append(calls, Call("fmt.Println", FALSE, ToString(i))))
       ELSE OpenURLs(urls, urlMode, https, i + 1, printed, Append(opened, url),
                     Append(calls, Call("browser.OpenURL", FALSE, ToString(i))))

GaveUp_Never(err) == FALSE

\* err := util.RetryAfter(...); err != nil
GaveUp(err) == err.kind # "ok"

WaitAndMaybeOpenService(st, ip, svc, urlTemplate, urlMode, https, polls, fault) ==
  LET operation == [i \in 1..RetryAttempts |->
                      CheckService(polls[i].endpoint, polls[i].fault).ret]
      waited == RetryAfter(RetryAttempts, operation, 1, <<>>) IN
  IF GaveUp(waited.ret) THEN SR(Done("exit", 1, <<>>, <<>>), waited.calls)
  ELSE LET r == GetServiceURLsForService(st, ip, svc, urlTemplate, fault)
           calls == waited.calls \o r.calls IN
  IF r.ret.kind # "ok" THEN SR(Done("exit", 1, <<>>, <<>>), calls)
  ELSE OpenURLs(r.ret.urls, urlMode, https, 1, <<>>, <<>>, calls)

DoWaitAndMaybeOpenService ==
  /\ last.op = "none"
  /\ \E polls \in Polls, ports \in PortLists(MaxListedPorts),
        urlTemplate \in OpenTemplates, urlMode \in BOOLEAN, https \in BOOLEAN,
        fault \in HostFaults \cup {[call |-> "services.Get", at |-> 1]} :
       LET svc == Service("svc1", ports)
           ip == "192.168.99.100" IN
       last' = ServiceOp("WaitAndMaybeOpenService",
                         [polls |-> polls, svc |-> svc, t |-> urlTemplate,
                          urlMode |-> urlMode, https |-> https],
                         WaitAndMaybeOpenService(store, ip, svc, urlTemplate,
                                                 urlMode, https, polls, fault))
  /\ UNCHANGED <<store, vm, prev, remote>>

NextService ==
  \/ DoRetryAfter
  \/ DoCheckService
  \/ DoGetServiceURLsForService
  \/ DoGetServiceURLs
  \/ DoWaitAndMaybeOpenService

SpecService == InitService /\ [][NextService]_vars

\* How many calls of that name the operation made.
Count(o, name) ==
  Cardinality({i \in 1..Len(o.calls) : o.calls[i].name = name})

\* C15: RetryAfter invokes the operation at most maxAttempts times; it stops
\* at the first success and returns success, having slept exactly once per
\* failure before it; when every attempt fails it returns the error of the
\* final attempt after exactly maxAttempts invocations.
Thm_C15_RetryAfter ==
  last.op = "RetryAfter" =>
    LET n == last.in.maxAttempts
        op == last.in.operation
        succeeds == {i \in 1..n : op[i].kind = "ok"}
    IN /\ Count(last, "operation") <= n
       /\ succeeds # {} =>
            LET k == CHOOSE i \in succeeds : \A j \in succeeds : i <= j IN
            /\ last.ret = Ok
            /\ Count(last, "operation") = k
            /\ Count(last, "time.Sleep") = k - 1
            /\ LastCall(last).name = "operation"
       /\ succeeds = {} =>
            /\ last.ret = op[n]
            /\ last.ret.kind # "ok"
            /\ Count(last, "operation") = n
       /\ \A i \in 1..Len(last.calls) :
            last.calls[i].name = "time.Sleep" =>
              /\ i > 1 /\ last.calls[i - 1].name = "operation"
              /\ last.calls[i - 1].err

\* Three attempts allowed, the operation fails twice and then succeeds:
\* three invocations and two sleeps.
Wit_C15_TwoFailuresThenSuccess ==
  /\ last.op = "RetryAfter"
  /\ last.in.maxAttempts = 3
  /\ last.in.operation[1].kind # "ok"
  /\ last.in.operation[2].kind # "ok"
  /\ last.in.operation[3].kind = "ok"
  /\ last.ret = Ok
  /\ Count(last, "operation") = 3
  /\ Count(last, "time.Sleep") = 2

\* The node ports of a service that are greater than 0, in declaration order.
Positive(ports) == SelectSeq(ports, LAMBDA nodePort : nodePort > 0)

\* The ports the template was executed for, in order.
Rendered(o) ==
  LET at == {i \in 1..Len(o.calls) : o.calls[i].name = "t.Execute"}
      nth(k) == CHOOSE i \in at : Cardinality({j \in at : j <= i}) = k
  IN [k \in 1..Cardinality(at) |-> o.calls[nth(k)].val]

\* The URL the default template gives for a port.
DefaultURL(ip, nodePort) == <<"http://", ip, ":", ToString(nodePort)>>

\* C16: once the service is fetched, a service is resolved to exactly the
\* subsequence of its ports whose NodePort is greater than 0, in declaration
\* order, and to one URL per such port; a service with no port or with every
\* NodePort 0 gives MissingNodePortError, not an empty list.
Thm_C16_NodePortURLs ==
  (last.op = "GetServiceURLsForService" /\ CalledOk(last, "services.Get")) =>
    LET want == Positive(last.in.svc.Ports)
        rendered == Rendered(last)
    IN /\ want = <<>> <=> last.ret.kind = "MissingNodePortError"
       /\ want = <<>> => last.ret.urls = <<>> /\ rendered = <<>>
       /\ Len(rendered) <= Len(want)
       /\ \A k \in 1..Len(rendered) : rendered[k] = ToString(want[k])
       /\ last.ret.kind = "ok" =>
            /\ Len(rendered) = Len(want)
            /\ Len(last.ret.urls) = Len(want)
            /\ \A k \in 1..Len(want) :
                 last.ret.urls[k] = DefaultURL(last.in.ip, want[k])
       /\ (want # <<>> /\ last.in.t.text[1] \in {"http://", "HTTP://"}
           /\ \A i \in 1..Len(last.in.t.text) : last.in.t.text[i] # "{{.Host}}")
          => last.ret.kind = "ok"

\* Ports [{NodePort: 0}, {NodePort: 31000}]: exactly one URL, for 31000.
Wit_C16_OneURLOfTwoPorts ==
  /\ last.op = "GetServiceURLsForService"
  /\ last.in.svc.Ports = <<0, 31000>>
  /\ last.ret.kind = "ok"
  /\ last.ret.urls = <<DefaultURL(last.in.ip, 31000)>>

\* How the resolution of the i-th listed service ends, from the inputs: with
\* URLs, with MissingNodePortError ("empty"), or with an error of another
\* kind ("abort").
Fate(in, i) ==
  IF in.t.nil \/ in.fault = [call |-> "services.Get", at |-> i] THEN "abort"
  ELSE IF Positive(in.svcs[i].Ports) = <<>> THEN "empty"
  ELSE IF in.t.text[1] = ":" \/ \E k \in 1..Len(in.t.text) :
                                   in.t.text[k] = "{{.Host}}"
  THEN "abort"
  ELSE "urls"

\* C17: once the services are listed, GetServiceURLs returns exactly one
\* entry per listed service, in list order: the URLs of its node ports for a
\* service that has some, an empty URL list for a service whose resolution
\* gives MissingNodePortError, after which the listing goes on; an error of
\* any other kind, and only that, aborts the whole listing.
Thm_C17_OneEntryPerService ==
  (last.op = "GetServiceURLs" /\ CalledOk(last, "services.List")) =>
    LET svcs == last.in.svcs
        aborts == {i \in 1..Len(svcs) : Fate(last.in, i) = "abort"}
        entries == last.ret.entries
    IN /\ last.ret.kind \in {"ok", "error"}
       /\ aborts = {} <=> last.ret.kind = "ok"
       /\ last.ret.kind = "ok" =>
            /\ Len(entries) = Len(svcs)
            /\ \A i \in 1..Len(svcs) :
                 /\ entries[i].Name = svcs[i].Name
                 /\ entries[i].Namespace = svcs[i].Namespace
                 /\ entries[i].URLs =
                      [k \in 1..Len(Positive(svcs[i].Ports)) |->
                         DefaultURL(last.in.ip, Positive(svcs[i].Ports)[k])]
                 /\ Fate(last.in, i) = "empty" <=> entries[i].URLs = <<>>
       /\ last.ret.kind = "error" =>
            /\ entries = <<>>
            /\ \A i \in aborts : Count(last, "services.Get") <= i

\* A service without a node port and, after it, one with a node port: two
\* entries, the first with no URL, the second with one.
Wit_C17_EmptyEntryAndOn ==
  /\ last.op = "GetServiceURLs"
  /\ last.ret.kind = "ok"
  /\ Len(last.in.svcs) = 2
  /\ Fate(last.in, 1) = "empty"
  /\ Len(last.ret.entries) = 2
  /\ last.ret.entries[1].URLs = <<>>
  /\ Len(last.ret.entries[2].URLs) = 1

\* C18: once the Endpoints object is fetched, it is reported ready exactly
\* when at least one of its subsets has at least one address: an object
\* with no subsets is not ready, an object with a subset that has an address
\* is ready; and every not-ready result is a RetriableError.
Claim_C18_ReadyIffSomeAddress ==
  (last.op = "CheckService" /\ CalledOk(last, "endpoints.Get")) =>
    LET subsets == last.in.endpoint.Subsets IN
    /\ last.ret.kind = "ok" <=>
         \E i \in 1..Len(subsets) : Len(subsets[i].Addresses) >= 1
    /\ last.ret.kind # "ok" => last.ret.kind = "retriable"

\* C19: with a nil template either resolver returns an error, and it has
\* made no lookup on the cluster API (services.List, services.Get) before;
\* this also for a namespace without services.
Claim_C19_NilTemplateImmediately ==
  (last.op \in {"GetServiceURLsForService", "GetServiceURLs"} /\ last.in.t.nil)
    => /\ last.ret.kind = "error"
       /\ ~Called(last, "services.List")
       /\ ~Called(last, "services.Get")

\* C23: when StartHost finds an existing host that is not Running, it calls
\* Driver.Start, then api.Save, then ConfigureAuth, each only after the one
\* before succeeded: a failing Start returns an error with no Save and no
\* ConfigureAuth, a failing Save an error with no ConfigureAuth; and no error
\* path of StartHost returns a host handle.
Thm_C23_StartSaveConfigureAuth ==
  last.op = "StartHost" =>
    /\ last.ret.kind # "ok" =>
         last.ret.kind \in {"error", "retriable", "exit"} /\ ~last.ret.host
    /\ (Loaded(last) /\ Reported(last) \notin {"-", Running}) =>
         LET steps == <<"api.Exists", "api.Load", "Driver.GetState",
                        "Driver.Start", "api.Save", "ConfigureAuth">>
             n == Len(last.calls)
         IN /\ n \in 4..6
            /\ Names(last) = SubSeq(steps, 1, n)
            /\ \A i \in 1..(n - 1) : ~last.calls[i].err
            /\ CalledErr(last, "Driver.Start") =>
                 /\ last.ret.kind = "error"
                 /\ ~Called(last, "api.Save")
                 /\ ~Called(last, "ConfigureAuth")
                 /\ store = last.pre.store
            /\ CalledErr(last, "api.Save") =>
                 /\ last.ret.kind = "error"
                 /\ ~Called(last, "ConfigureAuth")
            /\ CalledErr(last, "ConfigureAuth") => last.ret.kind = "retriable"
            /\ last.ret.kind = "ok" <=>
                 (n = 6 /\ ~last.calls[6].err)
            /\ last.ret.kind = "ok" => last.ret.host

\* A stopped host was started and saved, and ConfigureAuth then failed: the
\* error comes without a host handle.
Wit_C23_AuthFailedAfterStart ==
  /\ last.op = "StartHost"
  /\ Reported(last) = "Stopped"
  /\ CalledOk(last, "Driver.Start")
  /\ CalledOk(last, "api.Save")
  /\ CalledErr(last, "ConfigureAuth")
  /\ Before(last, "Driver.Start", "api.Save")
  /\ Before(last, "api.Save", "ConfigureAuth")
  /\ ~last.ret.host

\* The calls of the resolver of service URLs.
ResolverCalls ==
  {"api.Exists", "api.Load", "Driver.GetIP", "GetKubernetesClient",
   "services.Get", "t.Execute", "url.Parse"}

\* C22: WaitAndMaybeOpenService polls CheckService at most 20 times and
\* resolves the service URLs only after a poll has succeeded; a poll that
\* fails before the 20th is followed by a sleep and another poll, not by the
\* end of the process; when all 20 polls fail the process exits with status
\* 1 and no URL was resolved, printed or opened.
Thm_C22_WaitThenResolve ==
  last.op = "WaitAndMaybeOpenService" =>
    LET polls == {i \in 1..Len(last.calls) : last.calls[i].name = "operation"}
        nth(i) == Cardinality({j \in polls : j <= i})
    IN /\ Cardinality(polls) \in 1..20
       /\ \A i \in 1..Len(last.calls) :
            last.calls[i].name \in ResolverCalls
                                     \cup {"fmt.Println", "browser.OpenURL"} =>
              \E j \in polls : j < i /\ ~last.calls[j].err
       /\ \A j \in polls :
            (last.calls[j].err /\ nth(j) < 20) =>
              /\ j + 2 <= Len(last.calls)
              /\ last.calls[j + 1].name = "time.Sleep"
              /\ last.calls[j + 2].name = "operation"
       /\ \A j \in polls : ~last.calls[j].err => \A k \in polls : k <= j
       /\ (\A j \in polls : last.calls[j].err) =>
            /\ Cardinality(polls) = 20
            /\ last.ret.kind = "exit" /\ last.ret.code = 1
            /\ last.ret.printed = <<>> /\ last.ret.opened = <<>>
            /\ \A i \in 1..Len(last.calls) :
                 last.calls[i].name \in {"operation", "time.Sleep"}
       /\ (last.ret.printed # <<>> \/ last.ret.opened # <<>>) =>
            last.ret.kind = "ok"

\* The service was not ready for 19 polls and ready at the 20th: the URL was
\* resolved and opened after it.
Wit_C22_ReadyAtLastPoll ==
  /\ last.op = "WaitAndMaybeOpenService"
  /\ Count(last, "operation") = 20
  /\ CalledOk(last, "operation")
  /\ CalledOk(last, "services.Get")
  /\ Len(last.ret.opened) = 1

\* All 20 polls failed: the process exited with status 1.
Wit_C22_BudgetExhausted ==
  /\ last.op = "WaitAndMaybeOpenService"
  /\ Count(last, "operation") = 20
  /\ ~CalledOk(last, "operation")
  /\ last.ret = Done("exit", 1, <<>>, <<>>)

----------------------------------------------------------------------------
(* The yes/no prompt (package config): AskForYesNoConfirmation reads lines *)
(* from standard input through a buffered reader.  A string is the         *)
(* sequence of its characters.                                             *)

Whitespace == {" ", "\t", "\n"}

\* strings.TrimSpace
RECURSIVE TrimLeft(_)
TrimLeft(str) ==
  IF str # <<>> /\ Head(str) \in Whitespace THEN TrimLeft(Tail(str)) ELSE str

RECURSIVE TrimRight(_)
TrimRight(str) ==
  IF str # <<>> /\ str[Len(str)] \in Whitespace
  THEN TrimRight(SubSeq(str, 1, Len(str) - 1)) ELSE str

TrimSpace(str) == TrimRight(TrimLeft(str))

\* strings.ToLower, on the letters the model types.
ToLower(str) ==
  [i \in 1..Len(str) |->
     CASE str[i] = "Y" -> "y" [] str[i] = "E" -> "e" [] str[i] = "S" -> "s"
       [] str[i] = "N" -> "n" [] str[i] = "O" -> "o" [] OTHER -> str[i]]

\* posString returns the first index of element in slice, -1 if there is
\* none (indices from 0, as in the code).
RECURSIVE posStringFrom(_, _, _)
posStringFrom(slice, element, index) ==
  IF index >= Len(slice) THEN -1
  ELSE IF slice[index + 1] = element THEN index
  ELSE posStringFrom(slice, element, index + 1)

posString(slice, element) == posStringFrom(slice, element, 0)

containsString(slice, element) == ~(posString(slice, element) = -1)

\* The lines a user types, each ended by a newline.
TypedLines ==
  { <<"y", "\n">>, <<" ", "Y", "E", "S", " ", "\n">>, <<"N", "o", "\n">>,
    <<"m", "\n">>, <<"\n">> }

\* The response lists a caller passes: the usual ones, lists that share a
\* response, and a positive list that is not in lower case.
ResponseLists ==
  { [pos |-> << <<"y", "e", "s">>, <<"y">> >>,
     neg |-> << <<"n", "o">>, <<"n">> >>],
    [pos |-> << <<"y", "e", "s">>, <<"y">> >>,
     neg |-> << <<"n", "o">>, <<"y">> >>],
    [pos |-> << <<"Y", "e", "s">> >>, neg |-> << <<"n", "o">> >>] }

\* Most lines that arrive on standard input.
MaxLines == 3

\* Standard input: the lines that arrive, in the pieces one read of the file
\* returns (a terminal hands over one line per read, a pipe or a file all
\* that is there), and whether the input ends after them or stays open.
RECURSIVE ChunksOf(_, _)
ChunksOf(lines, cuts) ==
  IF lines = <<>> THEN <<>>
  ELSE LET ends == {i \in 1..Len(lines) : i \in cuts \/ i = Len(lines)}
           n == CHOOSE i \in ends : \A j \in ends : i <= j
       IN <<SubSeq(lines, 1, n)>>
            \o ChunksOf(SubSeq(lines, n + 1, Len(lines)),
                        {c - n : c \in {d \in cuts : d > n}})

Stdins ==
  UNION {{[chunks |-> ChunksOf(lines, cuts), closed |-> closed] :
            lines \in [1..n -> TypedLines], cuts \in SUBSET (1..(n - 1)),
            closed \in BOOLEAN} : n \in 0..MaxLines}

\* What the prompt ends with: it returned a value, the process exited
\* (log.Fatal), or it waits for input for ever.
Answer(kind, value) == [kind |-> kind, value |-> value]

\* reader := bufio.NewReader(os.Stdin); reader.ReadString('\n'): the new
\* reader fills its buffer with one read of the file and hands out the
\* first line; the rest stays in its buffer.
ReadString(chunks) ==
  IF chunks = <<>> THEN [err |-> TRUE, response |-> <<>>, buffered |-> <<>>,
                         stdin |-> <<>>]
  ELSE [err |-> FALSE, response |-> Head(chunks)[1],
        buffered |-> Tail(Head(chunks)), stdin |-> Tail(chunks)]

\* The recursive call makes a reader of its own, and what the reader of the
\* caller had buffered is not read again.
RECURSIVE AskForYesNoConfirmation(_, _, _, _, _)
AskForYesNoConfirmation(posResponses, negResponses, chunks, closed, calls) ==
  LET c1 == Append(calls, Call("fmt.Printf", FALSE, "[y/n]: "))
      read == ReadString(chunks) IN
  IF read.err
  THEN IF closed
       THEN SR(Answer("exit", FALSE),
               Append(c1, Call("ReadString", TRUE, "")))
       ELSE SR(Answer("waiting", FALSE), c1)
  ELSE LET response == ToLower(TrimSpace(read.response))
           c2 == Append(c1, Call("ReadString", FALSE, "")) IN
  IF containsString(posResponses, response) THEN SR(Answer("ok", TRUE), c2)
  ELSE IF containsString(negResponses, response)
  THEN SR(Answer("ok", FALSE), c2)
  ELSE AskForYesNoConfirmation(posResponses, negResponses, read.stdin, closed,
         Append(c2, Call("fmt.Println", FALSE, "Please type yes or no:")))

InitPrompt ==
  /\ store = NoRecord
  /\ vm = "None"
  /\ last = NoOp
  /\ prev = NoOp
  /\ remote = {}

DoAskForYesNoConfirmation ==
  /\ last.op = "none"
  /\ \E lists \in ResponseLists, stdin \in Stdins :
       last' = ServiceOp("AskForYesNoConfirmation",
                         [lists |-> lists, stdin |-> stdin],
                         AskForYesNoConfirmation(lists.pos, lists.neg,
                                                 stdin.chunks, stdin.closed,
                                                 <<>>))
  /\ UNCHANGED <<store, vm, prev, remote>>

NextPrompt == DoAskForYesNoConfirmation

SpecPrompt == InitPrompt /\ [][NextPrompt]_vars

\* The lines of standard input, in the order they arrive.
RECURSIVE Flatten(_)
Flatten(chunks) ==
  IF chunks = <<>> THEN <<>> ELSE Head(chunks) \o Flatten(Tail(chunks))

\* The line, trimmed and in lower case, is in the list.
InList(list, line) ==
  \E i \in 1..Len(list) : list[i] = ToLower(TrimSpace(line))

\* What the claim says of the prompt, for the lines that arrive.
FirstRecognisedDecides(o) ==
  LET lines == Flatten(o.in.stdin.chunks)
      pos == o.in.lists.pos
      neg == o.in.lists.neg
      recognised == {i \in 1..Len(lines) :
                       InList(pos, lines[i]) \/ InList(neg, lines[i])}
  IN /\ recognised = {} => o.ret.kind # "ok"
     /\ recognised # {} =>
          LET first == CHOOSE i \in recognised : \A j \in recognised : i <= j
          IN /\ o.ret.kind = "ok"
             /\ o.ret.value = InList(pos, lines[first])
             /\ Count(o, "fmt.Println") = first - 1
             /\ Count(o, "ReadString") = first

\* C21: AskForYesNoConfirmation returns only on a recognised line: every
\* line that, trimmed and in lower case, is in neither list is followed by
\* a new prompt; it returns true iff the first recognised line that arrives
\* is in posResponses, false iff it is in negResponses only; and it returns
\* whenever a recognised line arrives.
Claim_C21_FirstRecognisedDecides ==
  last.op = "AskForYesNoConfirmation" => FirstRecognisedDecides(last)

\* The same, when every read of standard input returns one line, as a
\* terminal does.
LineByLine_C21_FirstRecognisedDecides ==
  (last.op = "AskForYesNoConfirmation"
   /\ \A i \in 1..Len(last.in.stdin.chunks) :
        Len(last.in.stdin.chunks[i]) = 1)
    => FirstRecognisedDecides(last)

\* Two lines arrive in one read, the first not recognised, the second "No";
\* a "y" arrives later, and the prompt returns true.
Lost_C21_BufferedLine ==
  /\ last.op = "AskForYesNoConfirmation"
  /\ last.in.stdin.chunks = << << <<"m", "\n">>, <<"N", "o", "\n">> >>,
                               << <<"y", "\n">> >> >>
  /\ last.ret = Answer("ok", TRUE)

====
